---------------------------- MODULE Spec2Model ----------------------------
(***************************************************************************)
(* Model of the RSA demonstration in low_end_lappy.py and classic.py:      *)
(* the number-theory helpers, the SimpleRSA instance, and the              *)
(* ClassicalFactorizer strategies.                                         *)
(***************************************************************************)
EXTENDS Integers, Sequences, FiniteSets, TLC

(***************************************************************************)
(* Bounds of the model.                                                    *)
(***************************************************************************)
\* p and q offered to generate_keypair range over -1..MaxP
MaxP == 11
\* arguments of mod_inverse / modinv range over -MaxA..MaxA
MaxA == 8
\* numbers handed to the factorizer range over 2..MaxFN (and ExampleN)
MaxFN == 36
\* iteration budgets offered to pollards_rho range over 0..MaxIter (and 1000, 10000)
MaxIter == 3
\* limits offered to trial_division range over 0..MaxLimit
MaxLimit == 50
\* for n above ExampleN the seeds of pollards_rho range over 2..(2 + SeedSpan)
SeedSpan == 1
\* messages offered to main range over 0..MaxMsg (and n - 1, n)
MaxMsg == 78
\* arguments of is_prime and get_next_prime range over -MaxArg..(20 * MaxArg)
MaxArg == 6

(***************************************************************************)
(* Program constants.                                                      *)
(***************************************************************************)
StartE == 65537
FallbackE == 3
ExampleN == 391
DefaultLimitCap == 10000
DefaultMaxIterations == 10000
QuantumIterations == 50000
QuantumLimit == 50000
ClassicSeed == 2

(***************************************************************************)
(* Python values: None, raised exceptions, returned values.                *)
(***************************************************************************)
None == <<>>
Some(v) == <<v>>

Ok(v) == [tag |-> "ok", exc |-> "", msg |-> "", val |-> Some(v)]
Raise(e, m) == [tag |-> "raise", exc |-> e, msg |-> m, val |-> None]
NoReturn == [tag |-> "none", exc |-> "", msg |-> "", val |-> None]

IsOk(r) == r.tag = "ok"
Val(r) == r.val[1]

(***************************************************************************)
(* Integer arithmetic with Python's semantics.                             *)
(***************************************************************************)
Abs(a) == IF a < 0 THEN -a ELSE a

\* a % b for b # 0: the result has the sign of b
PyMod(a, b) == IF b > 0 THEN a % b ELSE -((-a) % (-b))

\* a // b for b # 0: floor division
PyDiv(a, b) == IF b > 0 THEN a \div b ELSE (-a) \div (-b)

RECURSIVE Euclid(_, _)
\* the remainder is bound to its value before the next round
Euclid(a, b) ==
    IF b = 0 THEN a
    ELSE CHOOSE g \in {Euclid(b, r) : r \in {a % b}} : TRUE

\* variant of gcd: a zero argument gives 1 instead of the other argument
gcd_zero_is_one(a, b) ==
    IF a = 0 \/ b = 0 THEN 1 ELSE Euclid(Abs(a), Abs(b))

\* math.gcd
gcd(a, b) == Euclid(Abs(a), Abs(b))

RECURSIVE SqrtIn(_, _, _)
\* the r in lo..hi with r*r <= n < (r+1)*(r+1), by bisection
SqrtIn(n, lo, hi) ==
    IF lo = hi THEN lo
    ELSE LET mid == (lo + hi + 1) \div 2
         IN  IF mid * mid <= n THEN SqrtIn(n, mid, hi) ELSE SqrtIn(n, lo, mid - 1)

\* int(math.sqrt(n)) for 0 <= n < 2^31
isqrt(n) == SqrtIn(n, 0, 46340)

\* (x * 16384) % n for 0 <= x < n < 2^27, in steps that fit a machine word
Shift14(x, n) == (((((((x * 16) % n) * 16) % n) * 16) % n) * 4) % n

\* (a * b) % n for 0 <= a, b < 2^27 and 1 <= n < 2^27, exact as Python's
\* unbounded integers make it: the product is taken directly when it fits a
\* machine word, and from the 14-bit halves of a and b otherwise
MulMod(a, b, n) ==
    IF a <= 46340 /\ b <= 46340 THEN (a * b) % n
    ELSE LET a1 == a \div 16384
             a0 == a % 16384
             b1 == b \div 16384
             b0 == b % 16384
             hi  == (a1 * b1) % n
             mid == (((a1 * b0) % n) + ((a0 * b1) % n)) % n
             lo  == (a0 * b0) % n
         IN  (Shift14(Shift14(hi, n), n) + Shift14(mid, n) + lo) % n

RECURSIVE pow(_, _, _)
\* pow(b, e, n) for e >= 0, n >= 1
pow(b, e, n) ==
    IF e = 0 THEN 1 % n
    ELSE CHOOSE r \in {IF e % 2 = 1 THEN MulMod(s, b % n, n) ELSE s :
                        s \in {MulMod(h, h, n) : h \in {pow(b, e \div 2, n)}}} : TRUE

(***************************************************************************)
(* is_prime, get_next_prime                                                *)
(***************************************************************************)
\* the least element of a non-empty set of integers
Least(S) == CHOOSE k \in S : \A j \in S : k <= j

\* variant of OddDivisorFrom: the scan includes stop itself
OddDivisorThrough(n, i, stop) ==
    LET hits == {k \in i .. stop : (k - i) % 2 = 0 /\ n % k = 0}
    IN  IF hits = {} THEN 0 ELSE Least(hits)

\* for k in range(i, stop, 2): if n % k == 0 -> the first such k;
\* range exhausted -> 0
OddDivisorFrom(n, i, stop) ==
    LET hits == {k \in i .. (stop - 1) : (k - i) % 2 = 0 /\ n % k = 0}
    IN  IF hits = {} THEN 0 ELSE Least(hits)

\* variant of is_prime: the scan stops one short, range(3, int(math.sqrt(n)), 2)
is_prime_short(n) ==
    IF n < 2 THEN FALSE
    ELSE IF n = 2 THEN TRUE
    ELSE IF n % 2 = 0 THEN FALSE
    ELSE OddDivisorFrom(n, 3, isqrt(n)) = 0

is_prime(n) ==
    IF n < 2 THEN FALSE
    ELSE IF n = 2 THEN TRUE
    ELSE IF n % 2 = 0 THEN FALSE
    ELSE OddDivisorFrom(n, 3, isqrt(n) + 1) = 0

RECURSIVE get_next_prime_after(_)
\* variant of get_next_prime: n is incremented before it is tested
get_next_prime_after(n) ==
    IF is_prime(n + 1) THEN n + 1 ELSE get_next_prime_after(n + 1)

RECURSIVE get_next_prime(_)
get_next_prime(n) == IF is_prime(n) THEN n ELSE get_next_prime(n + 1)


(***************************************************************************)
(* mod_inverse (low_end_lappy.py) and modinv (classic.py)                  *)
(***************************************************************************)
RECURSIVE extended_gcd(_, _)
\* returns <<gcd, x, y>>
extended_gcd(a, b) ==
    IF a = 0 THEN <<b, 0, 1>>
    ELSE CHOOSE t \in {<<r[1], r[3] - PyDiv(b, a) * r[2], r[2]>> :
                        r \in {extended_gcd(c[1], c[2]) : c \in {<<PyMod(b, a), a>>}}} : TRUE

\* variant of NoInverse: a common divisor greater than 1 is looked for
NoInverseAboveOne(a, m) == gcd(a, m) > 1

\* the guard of mod_inverse: the inverse is refused when this holds
NoInverse(a, m) == gcd(a, m) # 1

\* variant of mod_inverse: x is returned as extended_gcd left it
mod_inverse_raw(a, m) ==
    IF NoInverse(a, m) THEN Raise("ValueError", "Modular inverse does not exist")
    ELSE IF m = 0 THEN Raise("ZeroDivisionError", "integer modulo by zero")
    ELSE Ok(extended_gcd(PyMod(a, m), m)[2])

mod_inverse(a, m) ==
    IF NoInverse(a, m) THEN Raise("ValueError", "Modular inverse does not exist")
    ELSE IF m = 0 THEN Raise("ZeroDivisionError", "integer modulo by zero")
    ELSE LET x == extended_gcd(PyMod(a, m), m)[2]
         IN  Ok(PyMod(PyMod(x, m) + m, m))

\* the guard of classic.py's modinv, on the g that egcd returned
ModinvRefuses(g) == g # 1

modinv(a, m) ==
    LET r == extended_gcd(a, m)
    IN  IF ModinvRefuses(r[1]) THEN Raise("Exception", "modular inverse does not exist")
        ELSE IF m = 0 THEN Raise("ZeroDivisionError", "integer modulo by zero")
        ELSE Ok(PyMod(r[2], m))

(***************************************************************************)
(* State.                                                                  *)
(***************************************************************************)
VARIABLES
    rsa,             \* the SimpleRSA instance: p, q, n, public_key, private_key
    call,            \* the call made last: [op, args]
    ret,             \* what that call returned or raised
    sent,            \* <<m, c>> when the call made last was encrypt(m) returning c
    fact_n,          \* ClassicalFactorizer.n
    pc,              \* position inside the factorizer
    rho_x, rho_y, rho_d,      \* pollards_rho locals x, y, d
    iterations,      \* pollards_rho local iterations
    max_iterations,  \* pollards_rho parameter
    atk              \* main's locals and its position in the loop body

vars == <<rsa, call, ret, sent, fact_n, pc, rho_x, rho_y, rho_d,
          iterations, max_iterations, atk>>

rsaVars == <<rsa, sent>>
factVars == <<fact_n, pc, rho_x, rho_y, rho_d, iterations, max_iterations>>
mainVars == <<atk>>

NoCall == [op |-> "", args |-> <<>>]
Call(op, args) == [op |-> op, args |-> args]

\* main at the top of its loop: nothing read yet
MainStart ==
    [stage |-> "input", p |-> None, q |-> None, n |-> None, e |-> None,
     message_int |-> None, ciphertext |-> None, factors |-> None,
     d_recovered |-> None, decrypted_int |-> None, outcome |-> "",
     tried |-> <<>>]

\* SimpleRSA.__init__
NewRSA == [p |-> None, q |-> None, n |-> None,
           public_key |-> None, private_key |-> None]

\* no factorizer constructed
NoFactorizer ==
    /\ fact_n = 0
    /\ pc = "idle"
    /\ rho_x = 0 /\ rho_y = 0 /\ rho_d = 0
    /\ iterations = 0
    /\ max_iterations = 0

(***************************************************************************)
(* SimpleRSA                                                               *)
(***************************************************************************)
\* variant of FirstE: no fall back to 3
FirstENoFallback(phi_n) == StartE

\* e = 65537; if e >= phi_n: e = 3
FirstE(phi_n) == IF StartE >= phi_n THEN FallbackE ELSE StartE

RECURSIVE SearchE(_, _)
\* while math.gcd(e, phi_n) != 1: e = get_next_prime(e + 1)
SearchE(e, phi_n) ==
    IF gcd(e, phi_n) # 1 THEN SearchE(get_next_prime(e + 1), phi_n) ELSE e

\* variant of KeypairRefusal: the p == q check is missing
KeypairRefusalPrimesOnly(pp, qq) ==
    IF ~(is_prime(pp) /\ is_prime(qq)) THEN "Both numbers must be prime" ELSE ""

\* the two argument checks of generate_keypair; "" when both pass
KeypairRefusal(pp, qq) ==
    IF ~(is_prime(pp) /\ is_prime(qq)) THEN "Both numbers must be prime"
    ELSE IF pp = qq THEN "p and q must be different"
    ELSE ""

\* variant of generate_keypair: the search for e starts from the e of the key
\* the instance already holds
generate_keypair_cached(self, pp, qq) ==
    IF KeypairRefusal(pp, qq) # ""
    THEN <<self, Raise("ValueError", KeypairRefusal(pp, qq))>>
    ELSE LET nn    == pp * qq
             phi_n == (pp - 1) * (qq - 1)
             e     == SearchE(IF self.public_key # None THEN self.public_key[2]
                              ELSE FirstE(phi_n), phi_n)
             dr    == mod_inverse(e, phi_n)
             set1  == [self EXCEPT !.p = Some(pp), !.q = Some(qq), !.n = Some(nn)]
         IN  IF ~IsOk(dr) THEN <<set1, dr>>
             ELSE LET set2 == [set1 EXCEPT !.public_key = <<nn, e>>,
                                           !.private_key = <<nn, Val(dr)>>]
                  IN  <<set2, Ok(<<set2.public_key, set2.private_key>>)>>

\* variant of generate_keypair: p, q and n are stored before the checks
generate_keypair_eager(self, pp, qq) ==
    LET set1 == [self EXCEPT !.p = Some(pp), !.q = Some(qq), !.n = Some(pp * qq)]
    IN  IF KeypairRefusal(pp, qq) # ""
        THEN <<set1, Raise("ValueError", KeypairRefusal(pp, qq))>>
        ELSE LET phi_n == (pp - 1) * (qq - 1)
                 e     == SearchE(FirstE(phi_n), phi_n)
                 dr    == mod_inverse(e, phi_n)
             IN  IF ~IsOk(dr) THEN <<set1, dr>>
                 ELSE LET set2 == [set1 EXCEPT !.public_key = <<pp * qq, e>>,
                                               !.private_key = <<pp * qq, Val(dr)>>]
                      IN  <<set2, Ok(<<set2.public_key, set2.private_key>>)>>

\* generate_keypair(p, q): <<instance after the call, result>>
generate_keypair(self, pp, qq) ==
    IF KeypairRefusal(pp, qq) # ""
    THEN <<self, Raise("ValueError", KeypairRefusal(pp, qq))>>
    ELSE LET nn    == pp * qq
             phi_n == (pp - 1) * (qq - 1)
             e     == SearchE(FirstE(phi_n), phi_n)
             dr    == mod_inverse(e, phi_n)
             set1  == [self EXCEPT !.p = Some(pp), !.q = Some(qq), !.n = Some(nn)]
         IN  IF ~IsOk(dr) THEN <<set1, dr>>
             ELSE LET set2 == [set1 EXCEPT !.public_key = <<nn, e>>,
                                           !.private_key = <<nn, Val(dr)>>]
                  IN  <<set2, Ok(<<set2.public_key, set2.private_key>>)>>

\* variant of TooLarge: message_int = n is let through
TooLargeStrict(message_int, nn) == message_int > nn

\* the guard of encrypt
TooLarge(message_int, nn) == message_int >= nn

encrypt(self, message_int) ==
    IF self.public_key = None
    THEN Raise("TypeError", "cannot unpack non-iterable NoneType object")
    ELSE LET nn == self.public_key[1]
             e  == self.public_key[2]
         IN  IF TooLarge(message_int, nn)
             THEN Raise("ValueError", "Message too large")
             ELSE Ok(pow(message_int, e, nn))

\* variant of decrypt: the exponent is taken from public_key
decrypt_with_public_key(self, ciphertext) ==
    IF self.public_key = None
    THEN Raise("TypeError", "cannot unpack non-iterable NoneType object")
    ELSE Ok(pow(ciphertext, self.public_key[2], self.public_key[1]))

decrypt(self, ciphertext) ==
    IF self.private_key = None
    THEN Raise("TypeError", "cannot unpack non-iterable NoneType object")
    ELSE LET nn == self.private_key[1]
             dd == self.private_key[2]
         IN  Ok(pow(ciphertext, dd, nn))

\* integers offered as messages and ciphertexts: around [0, n) of the current key
Ints(self) == IF self.n = None THEN -1 .. 1 ELSE -1 .. (self.n[1] + 1)

GenerateKeypair(pp, qq) ==
    /\ rsa' = generate_keypair(rsa, pp, qq)[1]
    /\ ret' = generate_keypair(rsa, pp, qq)[2]
    /\ call' = Call("generate_keypair", <<pp, qq>>)
    /\ sent' = None
    /\ UNCHANGED <<factVars, mainVars>>

\* variant of Encrypt: a refused message also drops the public key
EncryptDropping(message_int) ==
    /\ ret' = encrypt(rsa, message_int)
    /\ call' = Call("encrypt", <<message_int>>)
    /\ sent' = IF IsOk(ret') THEN <<message_int, Val(ret')>> ELSE None
    /\ rsa' = IF IsOk(ret') THEN rsa ELSE [rsa EXCEPT !.public_key = None]
    /\ UNCHANGED <<factVars, mainVars>>

Encrypt(message_int) ==
    /\ ret' = encrypt(rsa, message_int)
    /\ call' = Call("encrypt", <<message_int>>)
    /\ sent' = IF IsOk(ret') THEN <<message_int, Val(ret')>> ELSE None
    /\ UNCHANGED <<rsa, factVars, mainVars>>

Decrypt(ciphertext) ==
    /\ ret' = decrypt(rsa, ciphertext)
    /\ call' = Call("decrypt", <<ciphertext>>)
    /\ sent' = IF sent # None /\ sent[2] = ciphertext THEN sent ELSE None
    /\ UNCHANGED <<rsa, factVars, mainVars>>

Init ==
    /\ rsa = NewRSA
    /\ call = NoCall
    /\ ret = NoReturn
    /\ sent = None
    /\ NoFactorizer
    /\ atk = MainStart

Next ==
    \/ \E pp \in -1 .. MaxP, qq \in -1 .. MaxP : GenerateKeypair(pp, qq)
    \/ \E message_int \in Ints(rsa) : Encrypt(message_int)
    \/ \E ciphertext \in Ints(rsa) : Decrypt(ciphertext)

Spec == Init /\ [][Next]_vars


(***************************************************************************)
(* Calls of the two modular-inverse functions on drawn arguments.          *)
(***************************************************************************)
CallModInverse(a, m) ==
    /\ call' = Call("mod_inverse", <<a, m>>)
    /\ ret' = mod_inverse(a, m)
    /\ UNCHANGED <<rsaVars, factVars, mainVars>>

CallModinv(a, m) ==
    /\ call' = Call("modinv", <<a, m>>)
    /\ ret' = modinv(a, m)
    /\ UNCHANGED <<rsaVars, factVars, mainVars>>

NextInverse ==
    \/ \E a \in -MaxA .. MaxA, m \in -MaxA .. MaxA : CallModInverse(a, m)
    \/ \E a \in -MaxA .. MaxA, m \in -MaxA .. MaxA : CallModinv(a, m)

SpecInverse == Init /\ [][NextInverse]_vars

(***************************************************************************)
(* ClassicalFactorizer (low_end_lappy.py) and pollards_rho (classic.py)    *)
(***************************************************************************)
Min(a, b) == IF a < b THEN a ELSE b

\* "not found": Python's None (classic.py returns the pair (None, None))
NotFound == Ok(None)
Found(f1, f2) == Ok(<<f1, f2>>)

\* variant of EffectiveLimit: the default is min(10000, int(math.sqrt(self.n)))
EffectiveLimitAtRoot(nn, limit) ==
    IF limit = None THEN Min(DefaultLimitCap, isqrt(nn)) ELSE limit[1]

\* limit = min(10000, int(math.sqrt(self.n)) + 1) when limit is None
EffectiveLimit(nn, limit) ==
    IF limit = None THEN Min(DefaultLimitCap, isqrt(nn) + 1) ELSE limit[1]

trial_division(nn, limit) ==
    IF nn % 2 = 0 THEN Found(2, nn \div 2)
    ELSE LET i == OddDivisorFrom(nn, 3, EffectiveLimit(nn, limit))
         IN  IF i # 0 THEN Found(i, nn \div i) ELSE NotFound

\* f(x) = (x * x + 1) % n
f(xx, nn) == (MulMod(xx, xx, nn) + 1) % nn

\* variant of WithinBudget: the iteration count is not looked at
NoBudget(op, it, max) == TRUE

\* the budget part of the loop condition; classic.py's loop has none
WithinBudget(op, it, max) == op = "classic_pollards_rho" \/ it < max

\* while d == 1 and iterations < max_iterations
LoopCond == rho_d = 1 /\ WithinBudget(call.op, iterations, max_iterations)

\* variant of RhoResult: d = n is not told apart from a proper factor
RhoResultAnyD(op, dd, nn) ==
    IF dd # 1 THEN Found(dd, nn \div dd) ELSE NotFound

\* the result of pollards_rho once its loop has ended with d
RhoResult(op, dd, nn) ==
    IF op = "classic_pollards_rho"
    THEN IF dd = nn THEN NotFound ELSE Found(dd, nn \div dd)
    ELSE IF dd # 1 /\ dd # nn THEN Found(dd, nn \div dd) ELSE NotFound

\* ClassicalFactorizer(n)
NewFactorizer(nn) ==
    /\ pc = "idle"
    /\ fact_n' = nn
    /\ pc' = "ready"
    /\ UNCHANGED <<rsaVars, mainVars, call, ret, rho_x, rho_y, rho_d, iterations,
                 max_iterations>>

TrialDivision(limit) ==
    /\ pc = "ready"
    /\ call' = Call("trial_division", <<limit>>)
    /\ ret' = trial_division(fact_n, limit)
    /\ UNCHANGED <<rsaVars, factVars, mainVars>>

\* the values random.randint(2, n - 1) is taken to draw: every value of the
\* range for n up to ExampleN, the first values of the range for larger n
RandomSeeds(nn) ==
    IF nn <= ExampleN THEN 2 .. (nn - 1) ELSE 2 .. (2 + SeedSpan)

\* entry of a Pollard's rho run up to the loop: op names the function entered,
\* max its iteration budget, seeds the values the initial x can take
RhoEnter(op, max, seeds) ==
    /\ pc = "ready"
    /\ call' = Call(op, <<max>>)
    /\ IF fact_n % 2 = 0
       THEN /\ ret' = Found(2, fact_n \div 2)
            /\ UNCHANGED factVars
       ELSE IF seeds = {}
       THEN /\ ret' = Raise("ValueError", "empty range for randrange()")
            /\ UNCHANGED factVars
       ELSE \E seed \in seeds :
            /\ rho_x' = seed
            /\ rho_y' = seed
            /\ rho_d' = 1
            /\ iterations' = 0
            /\ max_iterations' = max
            /\ ret' = NoReturn
            /\ pc' = "rho_loop"
            /\ UNCHANGED fact_n
    /\ UNCHANGED rsaVars

\* pollards_rho(max_iterations), x = random.randint(2, n - 1)
PollardsRho(max) ==
    /\ RhoEnter("pollards_rho", max, RandomSeeds(fact_n))
    /\ UNCHANGED mainVars

\* simulated_quantum_factor(): pollards_rho(max_iterations=50000) first
SimulatedQuantumFactor ==
    /\ RhoEnter("simulated_quantum_factor", QuantumIterations, RandomSeeds(fact_n))
    /\ UNCHANGED mainVars

\* classic.py pollards_rho(n): x, y, d = 2, 2, 1
ClassicPollardsRho ==
    /\ RhoEnter("classic_pollards_rho", 0, {ClassicSeed})
    /\ UNCHANGED mainVars

\* one iteration of the loop body
RhoStep ==
    /\ pc = "rho_loop"
    /\ LoopCond
    /\ rho_x' = f(rho_x, fact_n)
    /\ rho_y' = f(f(rho_y, fact_n), fact_n)
    /\ rho_d' = gcd(Abs(rho_x' - rho_y'), fact_n)
    /\ iterations' = IF call.op = "classic_pollards_rho" THEN iterations
                     ELSE iterations + 1
    /\ UNCHANGED <<rsaVars, mainVars, call, ret, fact_n, pc, max_iterations>>

\* the loop has ended: the function returns (simulated_quantum_factor goes on
\* to trial_division(limit=50000) when pollards_rho returned None)
RhoExit ==
    /\ pc = "rho_loop"
    /\ ~LoopCond
    /\ ret' = IF call.op = "simulated_quantum_factor"
                 /\ RhoResult(call.op, rho_d, fact_n) = NotFound
              THEN trial_division(fact_n, Some(QuantumLimit))
              ELSE RhoResult(call.op, rho_d, fact_n)
    /\ pc' = "ready"
    /\ rho_x' = 0 /\ rho_y' = 0 /\ rho_d' = 0
    /\ iterations' = 0
    /\ max_iterations' = 0
    /\ UNCHANGED <<rsaVars, mainVars, call, fact_n>>

\* the numbers handed to the factorizer
FactorInputs == (2 .. MaxFN) \cup {ExampleN}

\* the iteration budgets handed to pollards_rho
Budgets == (0 .. MaxIter) \cup {1000, DefaultMaxIterations}

NextFactor ==
    \/ \E nn \in FactorInputs : NewFactorizer(nn)
    \/ \E limit \in {None} \cup {Some(l) : l \in 0 .. MaxLimit} : TrialDivision(limit)
    \/ \E max \in Budgets : PollardsRho(max)
    \/ SimulatedQuantumFactor
    \/ ClassicPollardsRho
    \/ RhoStep
    \/ RhoExit

SpecFactor == Init /\ [][NextFactor]_vars

\* the program is one thread that keeps running: a loop iteration or a return
\* that can be taken is taken
FairSpecFactor == SpecFactor /\ WF_vars(RhoStep) /\ WF_vars(RhoExit)


(***************************************************************************)
(* main (low_end_lappy.py): one pass of its loop body is key generation,   *)
(* encryption of a message, and the attack on (n, e, ciphertext).          *)
(***************************************************************************)
\* pairs typed in as p and q beyond the small range
ExamplePairs ==
    {<<61, 53>>, <<10091, 10151>>, <<3, 917519>>, <<10037, 9973>>}

PrimeInputs == ((-1 .. MaxP) \X (-1 .. MaxP)) \cup ExamplePairs

RECURSIVE to_bytes(_)
\* the bytes of number, big-endian, without leading zero bytes
to_bytes(number) ==
    IF number = 0 THEN <<>>
    ELSE Append(to_bytes(number \div 256), number % 256)

\* a continuation byte of UTF-8
Cont(b) == b \in 128 .. 191

RECURSIVE IsUtf8(_)
\* bs is what str.encode('utf-8') can produce
IsUtf8(bs) ==
    IF bs = <<>> THEN TRUE
    ELSE IF bs[1] < 128 THEN IsUtf8(Tail(bs))
    ELSE IF bs[1] \in 194 .. 223
    THEN Len(bs) >= 2 /\ Cont(bs[2]) /\ IsUtf8(SubSeq(bs, 3, Len(bs)))
    ELSE IF bs[1] \in 224 .. 239
    THEN /\ Len(bs) >= 3 /\ Cont(bs[2]) /\ Cont(bs[3])
         /\ bs[1] = 224 => bs[2] >= 160
         /\ bs[1] = 237 => bs[2] <= 159
         /\ IsUtf8(SubSeq(bs, 4, Len(bs)))
    ELSE IF bs[1] \in 240 .. 244
    THEN /\ Len(bs) >= 4 /\ Cont(bs[2]) /\ Cont(bs[3]) /\ Cont(bs[4])
         /\ bs[1] = 240 => bs[2] >= 144
         /\ bs[1] = 244 => bs[2] <= 143
         /\ IsUtf8(SubSeq(bs, 5, Len(bs)))
    ELSE FALSE

\* number is int.from_bytes(text.encode('utf-8'), 'big') for some text
text_to_int_image(number) == number >= 0 /\ IsUtf8(to_bytes(number))

\* the integers text_to_int(message) is taken to produce for a key with
\* modulus nn: the short texts, and nn - 1 and nn where they encode a text
Messages(nn) ==
    {m \in (0 .. Min(nn, MaxMsg)) \cup {nn - 1, nn} : text_to_int_image(m)}

\* not is_prime(p) or not is_prime(q), then p == q
InputRefused(pp, qq) == ~is_prime(pp) \/ ~is_prime(qq) \/ pp = qq

\* variant of NotFactors: the next strategy is tried whatever was found
NotFactorsIgnored(fs) == TRUE

\* "if not factors": None is false, a pair is true
NotFactors(fs) == fs = None

\* variant of RecoverD: phi_n taken as found_p * found_q - 1
RecoverDFromN(e, fs) == mod_inverse(e, fs[1] * fs[2] - 1)

\* phi_n = (found_p - 1) * (found_q - 1); d_recovered = mod_inverse(e, phi_n)
RecoverD(e, fs) == mod_inverse(e, (fs[1] - 1) * (fs[2] - 1))

\* variant of Verdict: the test on factors is inverted
VerdictInverted(fs, dr) ==
    IF ~NotFactors(fs) THEN "FAILED"
    ELSE IF IsOk(dr) THEN "SUCCESS"
    ELSE "ERROR"

\* what the DECRYPTION block prints for factors fs and the result dr of
\* mod_inverse: "ATTACK IS A SUCCESS", "Error in key reconstruction",
\* "ATTACK FAILED"
Verdict(fs, dr) ==
    IF NotFactors(fs) THEN "FAILED"
    ELSE IF IsOk(dr) THEN "SUCCESS"
    ELSE "ERROR"

\* p = int(input(...)), q = int(input(...)) and the checks on them
MainInput(pp, qq) ==
    /\ atk.stage = "input"
    /\ atk' = [MainStart EXCEPT !.p = Some(pp), !.q = Some(qq),
                  !.stage = IF InputRefused(pp, qq) THEN "input" ELSE "keygen"]
    /\ UNCHANGED <<rsaVars, factVars, call, ret>>

\* rsa = SimpleRSA(); pub_key, priv_key = rsa.generate_keypair(p, q)
MainGenerateKeys ==
    /\ atk.stage = "keygen"
    /\ LET r == generate_keypair(NewRSA, atk.p[1], atk.q[1])
       IN  /\ rsa' = r[1]
           /\ atk' = IF IsOk(r[2])
                     THEN [atk EXCEPT !.n = Some(Val(r[2])[1][1]),
                                      !.e = Some(Val(r[2])[1][2]),
                                      !.stage = "message"]
                     ELSE [atk EXCEPT !.stage = "input"]
    /\ UNCHANGED <<sent, factVars, call, ret>>

\* message_int = text_to_int(message); if message_int >= n: ... continue
MainMessage(message_int) ==
    /\ atk.stage = "message"
    /\ atk' = [atk EXCEPT !.message_int = Some(message_int),
                          !.stage = IF message_int >= atk.n[1]
                                    THEN "input" ELSE "encrypting"]
    /\ UNCHANGED <<rsaVars, factVars, call, ret>>

\* ciphertext = rsa.encrypt(message_int); except Exception: ... continue
MainEncrypt ==
    /\ atk.stage = "encrypting"
    /\ LET r == encrypt(rsa, atk.message_int[1])
       IN  atk' = IF IsOk(r)
                  THEN [atk EXCEPT !.ciphertext = Some(Val(r)), !.stage = "attack"]
                  ELSE [atk EXCEPT !.stage = "input"]
    /\ UNCHANGED <<rsaVars, factVars, call, ret>>

\* factorizer = ClassicalFactorizer(n); factors = factorizer.trial_division()
MainTrialDivision ==
    /\ atk.stage = "attack"
    /\ fact_n' = atk.n[1]
    /\ pc' = "ready"
    /\ call' = Call("trial_division", <<>>)
    /\ ret' = trial_division(atk.n[1], None)
    /\ atk' = [atk EXCEPT !.factors = Val(ret'), !.stage = "after_trial",
                          !.tried = Append(@, "trial_division")]
    /\ UNCHANGED <<rsaVars, rho_x, rho_y, rho_d, iterations, max_iterations>>

\* if not factors: factors = factorizer.pollards_rho()
MainPollardsRho ==
    /\ atk.stage = "after_trial"
    /\ NotFactors(atk.factors)
    /\ RhoEnter("pollards_rho", DefaultMaxIterations, RandomSeeds(fact_n))
    /\ atk' = [atk EXCEPT !.stage = "in_rho", !.tried = Append(@, "pollards_rho")]

MainSkipPollardsRho ==
    /\ atk.stage = "after_trial"
    /\ ~NotFactors(atk.factors)
    /\ atk' = [atk EXCEPT !.stage = "after_rho"]
    /\ UNCHANGED <<rsaVars, factVars, call, ret>>

\* pollards_rho has returned to main
MainRhoReturned ==
    /\ atk.stage = "in_rho"
    /\ pc = "ready"
    /\ atk' = [atk EXCEPT !.factors = Val(ret), !.stage = "after_rho"]
    /\ UNCHANGED <<rsaVars, factVars, call, ret>>

\* if not factors: factors = factorizer.simulated_quantum_factor()
MainQuantum ==
    /\ atk.stage = "after_rho"
    /\ NotFactors(atk.factors)
    /\ RhoEnter("simulated_quantum_factor", QuantumIterations, RandomSeeds(fact_n))
    /\ atk' = [atk EXCEPT !.stage = "in_quantum",
                          !.tried = Append(@, "simulated_quantum_factor")]

MainSkipQuantum ==
    /\ atk.stage = "after_rho"
    /\ ~NotFactors(atk.factors)
    /\ atk' = [atk EXCEPT !.stage = "decryption"]
    /\ UNCHANGED <<rsaVars, factVars, call, ret>>

\* simulated_quantum_factor has returned to main
MainQuantumReturned ==
    /\ atk.stage = "in_quantum"
    /\ pc = "ready"
    /\ atk' = [atk EXCEPT !.factors = Val(ret), !.stage = "decryption"]
    /\ UNCHANGED <<rsaVars, factVars, call, ret>>

\* if factors: ... d_recovered = mod_inverse(e, phi_n) ... except ... else ...
MainKeyRecovery ==
    /\ atk.stage = "decryption"
    /\ IF NotFactors(atk.factors)
       THEN atk' = [atk EXCEPT !.outcome = Verdict(atk.factors, NoReturn),
                               !.stage = "again"]
       ELSE LET dr == RecoverD(atk.e[1], atk.factors)
            IN  atk' = IF IsOk(dr)
                       THEN [atk EXCEPT !.d_recovered = Some(Val(dr)),
                                        !.stage = "decrypting"]
                       ELSE [atk EXCEPT !.outcome = Verdict(atk.factors, dr),
                                        !.stage = "again"]
    /\ UNCHANGED <<rsaVars, factVars, call, ret>>

\* decrypted_int = pow(ciphertext, d_recovered, n) and the success report
MainDecrypt ==
    /\ atk.stage = "decrypting"
    /\ atk' = [atk EXCEPT
                 !.decrypted_int = Some(pow(atk.ciphertext[1], atk.d_recovered[1], atk.n[1])),
                 !.outcome = Verdict(atk.factors, Ok(atk.d_recovered[1])),
                 !.stage = "again"]
    /\ UNCHANGED <<rsaVars, factVars, call, ret>>

\* "Try again? (y/n)" answered y: the loop body starts over with new objects
MainTryAgain ==
    /\ atk.stage = "again"
    /\ atk' = MainStart
    /\ rsa' = NewRSA
    /\ call' = NoCall
    /\ ret' = NoReturn
    /\ fact_n' = 0
    /\ pc' = "idle"
    /\ UNCHANGED <<sent, rho_x, rho_y, rho_d, iterations, max_iterations>>

\* "Try again? (y/n)" answered otherwise: break
MainExit ==
    /\ atk.stage = "again"
    /\ atk' = [atk EXCEPT !.stage = "exit"]
    /\ UNCHANGED <<rsaVars, factVars, call, ret>>

\* the steps of the attack, from "THE attack" to the report
AttackStep ==
    \/ MainTrialDivision
    \/ MainPollardsRho
    \/ MainSkipPollardsRho
    \/ MainRhoReturned
    \/ MainQuantum
    \/ MainSkipQuantum
    \/ MainQuantumReturned
    \/ MainKeyRecovery
    \/ MainDecrypt
    \/ RhoStep
    \/ RhoExit

NextAttack ==
    \/ \E pq \in PrimeInputs : MainInput(pq[1], pq[2])
    \/ MainGenerateKeys
    \/ /\ atk.stage = "message"
       /\ \E message_int \in Messages(atk.n[1]) : MainMessage(message_int)
    \/ MainEncrypt
    \/ AttackStep
    \/ MainTryAgain
    \/ MainExit

SpecAttack == Init /\ [][NextAttack]_vars

\* every step of the attack moves the position of main or of the rho loop
attackPos == <<atk, pc, rho_x, rho_y, rho_d, iterations>>

\* main is one thread that keeps running between two inputs: a step of the
\* attack that can be taken is taken
FairSpecAttack == SpecAttack /\ WF_attackPos(AttackStep)

(***************************************************************************)
(* Calls of is_prime and get_next_prime on drawn arguments.                *)
(***************************************************************************)
CallIsPrime(k) ==
    /\ call' = Call("is_prime", <<k>>)
    /\ ret' = Ok(is_prime(k))
    /\ UNCHANGED <<rsaVars, factVars, mainVars>>

CallGetNextPrime(k) ==
    /\ call' = Call("get_next_prime", <<k>>)
    /\ ret' = Ok(get_next_prime(k))
    /\ UNCHANGED <<rsaVars, factVars, mainVars>>

NextNumbers ==
    \/ \E k \in -MaxArg .. (20 * MaxArg) : CallIsPrime(k)
    \/ \E k \in -MaxArg .. (20 * MaxArg) : CallGetNextPrime(k)

SpecNumbers == Init /\ [][NextNumbers]_vars

(***************************************************************************)
(* Repeated calls: generate_keypair on one instance, is_prime in between.  *)
(***************************************************************************)
NextRepeat ==
    \/ \E pp \in -1 .. MaxP, qq \in -1 .. MaxP : GenerateKeypair(pp, qq)
    \/ \E k \in -1 .. MaxP : CallIsPrime(k)

SpecRepeat == Init /\ [][NextRepeat]_vars

(***************************************************************************)
(* Arithmetic notions the properties are stated with, defined directly     *)
(* from their mathematical meaning.                                        *)
(***************************************************************************)
Max(a, b) == IF a > b THEN a ELSE b

IsPrimeMath(k) == k >= 2 /\ \A dd \in 2 .. (k - 1) : k % dd # 0

CommonDivisor(g, a, b) == Abs(a) % g = 0 /\ Abs(b) % g = 0

GcdMath(a, b) ==
    IF a = 0 /\ b = 0 THEN 0
    ELSE CHOOSE g \in 1 .. Max(Abs(a), Abs(b)) :
            /\ CommonDivisor(g, a, b)
            /\ \A h \in (g + 1) .. Max(Abs(a), Abs(b)) : ~CommonDivisor(h, a, b)

\* the smallest divisor of k (k >= 2) greater than 1
SmallestDivisor(k) ==
    CHOOSE dd \in 2 .. k : k % dd = 0 /\ \A h \in 2 .. (dd - 1) : k % h # 0

OddComposite(k) == k >= 2 /\ k % 2 = 1 /\ ~IsPrimeMath(k)

RECURSIVE NaivePow(_, _, _)
\* b^e mod k by e multiplications
NaivePow(b, e, k) == IF e = 0 THEN 1 % k ELSE (NaivePow(b, e - 1, k) * (b % k)) % k

HasKey == rsa.public_key # None /\ rsa.private_key # None

(***************************************************************************)
(* C1: after generate_keypair(p, q) has succeeded, decrypting the          *)
(* ciphertext that encrypt returned for a message m in [0, n) gives back   *)
(* m, down to the smallest key p = 2, q = 3.                               *)
(***************************************************************************)
RoundTrip ==
    (call.op = "decrypt" /\ sent # None /\ sent[1] >= 0)
        => (IsOk(ret) /\ Val(ret) = sent[1])

RoundTripOnSmallestKey ==
    /\ call.op = "decrypt"
    /\ sent # None
    /\ rsa.n = Some(6)
    /\ sent[1] = 5
    /\ IsOk(ret)

(***************************************************************************)
(* C2: every key pair generate_keypair returns satisfies 1 < e < phi,      *)
(* gcd(e, phi) = 1 and d*e mod phi = 1, with phi = (p-1)(q-1), n = p*q.    *)
(***************************************************************************)
KeyPairInvariant ==
    (call.op = "generate_keypair" /\ IsOk(ret))
        => LET phi == (call.args[1] - 1) * (call.args[2] - 1)
               pub == Val(ret)[1]
               prv == Val(ret)[2]
           IN  /\ pub[1] = call.args[1] * call.args[2]
               /\ prv[1] = pub[1]
               /\ 1 < pub[2]
               /\ pub[2] < phi
               /\ GcdMath(pub[2], phi) = 1
               /\ (prv[2] * pub[2]) % phi = 1

(***************************************************************************)
(* C5: generate_keypair raises the invalid-prime error when p or q is not  *)
(* prime, the equal-primes error when p = q are prime, and returns a key   *)
(* pair only when p and q are distinct primes.                             *)
(***************************************************************************)
KeypairErrors ==
    call.op = "generate_keypair"
        => LET pp == call.args[1]
               qq == call.args[2]
           IN  /\ (~IsPrimeMath(pp) \/ ~IsPrimeMath(qq))
                    => ret = Raise("ValueError", "Both numbers must be prime")
               /\ (IsPrimeMath(pp) /\ IsPrimeMath(qq) /\ pp = qq)
                    => ret = Raise("ValueError", "p and q must be different")
               /\ IsOk(ret) <=> (IsPrimeMath(pp) /\ IsPrimeMath(qq) /\ pp # qq)

EqualPrimesRefused ==
    /\ call = Call("generate_keypair", <<3, 3>>)
    /\ ret = Raise("ValueError", "p and q must be different")

(***************************************************************************)
(* C6: with a key in place, encrypt(message_int) raises message-too-large  *)
(* exactly when message_int >= n, and otherwise returns                    *)
(* message_int^e mod n, a value in [0, n).                                 *)
(***************************************************************************)
EncryptBoundary ==
    (call.op = "encrypt" /\ HasKey)
        => LET m  == call.args[1]
               nn == rsa.public_key[1]
               e  == rsa.public_key[2]
           IN  /\ (ret = Raise("ValueError", "Message too large")) <=> (m >= nn)
               /\ (m < nn) => /\ IsOk(ret)
                              /\ Val(ret) = NaivePow(m, e, nn)
                              /\ Val(ret) \in 0 .. (nn - 1)

EncryptOfNRefused ==
    /\ call.op = "encrypt"
    /\ HasKey
    /\ call.args[1] = rsa.public_key[1]
    /\ ret = Raise("ValueError", "Message too large")

(***************************************************************************)
(* C3 as stated: for a >= 0, m >= 1 with gcd(a, m) = 1, mod_inverse(a, m)  *)
(* returns x with 0 <= x < m and (a*x) mod m = 1.                          *)
(***************************************************************************)
InverseIsOne ==
    (call.op = "mod_inverse" /\ call.args[1] >= 0 /\ call.args[2] >= 1
        /\ GcdMath(call.args[1], call.args[2]) = 1)
        => /\ IsOk(ret)
           /\ Val(ret) \in 0 .. (call.args[2] - 1)
           /\ (call.args[1] * Val(ret)) % call.args[2] = 1

(***************************************************************************)
(* C3 amended: for a >= 0, m >= 1 with gcd(a, m) = 1, mod_inverse(a, m)    *)
(* returns x with 0 <= x < m and (a*x) mod m = 1 mod m, which is 1 for     *)
(* m >= 2 and 0 for m = 1.                                                 *)
(***************************************************************************)
InverseIsOneModM ==
    (call.op = "mod_inverse" /\ call.args[1] >= 0 /\ call.args[2] >= 1
        /\ GcdMath(call.args[1], call.args[2]) = 1)
        => /\ IsOk(ret)
           /\ Val(ret) \in 0 .. (call.args[2] - 1)
           /\ (call.args[1] * Val(ret)) % call.args[2] = 1 % call.args[2]

InverseOfThreeModSeven ==
    /\ call = Call("mod_inverse", <<3, 7>>)
    /\ ret = Ok(5)

(***************************************************************************)
(* C4: mod_inverse(a, m), and classic.py's modinv(a, m), raise the         *)
(* no-inverse error and return no value whenever gcd(a, m) # 1.            *)
(***************************************************************************)
NoInverseSignalled ==
    (call.op \in {"mod_inverse", "modinv"}
        /\ GcdMath(call.args[1], call.args[2]) # 1)
        => /\ ret.tag = "raise"
           /\ ret.val = None
           /\ call.op = "mod_inverse"
                => ret = Raise("ValueError", "Modular inverse does not exist")
           /\ call.op = "modinv"
                => ret = Raise("Exception", "modular inverse does not exist")

NoInverseOfTwoModFour ==
    /\ call = Call("mod_inverse", <<2, 4>>)
    /\ ret = Raise("ValueError", "Modular inverse does not exist")

(***************************************************************************)
(* C7 as stated: for odd composite n with smallest non-trivial divisor f,  *)
(* trial_division(limit) returns (f, n/f) when f <= limit and not-found    *)
(* when no divisor lies within limit.                                      *)
(***************************************************************************)
TrialDivisionUpToLimit ==
    (pc = "ready" /\ call.op = "trial_division" /\ call.args[1] # None
        /\ OddComposite(fact_n))
        => LET ff    == SmallestDivisor(fact_n)
               limit == call.args[1][1]
           IN  /\ ff <= limit => ret = Found(ff, fact_n \div ff)
               /\ ff > limit => ret = NotFound

(***************************************************************************)
(* C7 amended: for odd composite n with smallest non-trivial divisor f,    *)
(* trial_division(limit) scans the odd candidates from 3 up to but not     *)
(* including limit: it returns (f, n/f) when f < limit and not-found when  *)
(* f >= limit.                                                             *)
(***************************************************************************)
TrialDivisionBelowLimit ==
    (pc = "ready" /\ call.op = "trial_division" /\ call.args[1] # None
        /\ OddComposite(fact_n))
        => LET ff    == SmallestDivisor(fact_n)
               limit == call.args[1][1]
           IN  /\ ff < limit => ret = Found(ff, fact_n \div ff)
               /\ ff >= limit => ret = NotFound

TrialDivisionOfExample ==
    /\ pc = "ready"
    /\ fact_n = ExampleN
    /\ call = Call("trial_division", <<Some(50)>>)
    /\ ret = Found(17, 23)

(***************************************************************************)
(* C8: every pair (f1, f2) that trial_division, pollards_rho or            *)
(* simulated_quantum_factor returns for n >= 2 satisfies f1*f2 = n and     *)
(* 1 < f1 <= f2 < n; any other result is not-found.                        *)
(***************************************************************************)
FactorPairOrdered ==
    (pc = "ready"
        /\ call.op \in {"trial_division", "pollards_rho", "simulated_quantum_factor"})
        => /\ IsOk(ret)
           /\ ret # NotFound
                => /\ Val(ret)[1] * Val(ret)[2] = fact_n
                   /\ 1 < Val(ret)[1]
                   /\ Val(ret)[1] <= Val(ret)[2]
                   /\ Val(ret)[2] < fact_n

(***************************************************************************)
(* C9: pollards_rho(max_iterations) always terminates: for n >= 3 and      *)
(* every seed the loop runs at most max_iterations iterations, and the     *)
(* call then returns a pair or not-found.                                  *)
(***************************************************************************)
InCappedLoop == pc = "rho_loop" /\ call.op = "pollards_rho"

RhoReturned ==
    /\ pc = "ready"
    /\ call.op = "pollards_rho"
    /\ IsOk(ret)
    /\ ret # NotFound => Len(Val(ret)) = 2

RhoTerminates ==
    /\ [](InCappedLoop => iterations <= max_iterations)
    /\ (InCappedLoop ~> RhoReturned)

RhoBudgetExhausted ==
    /\ InCappedLoop
    /\ fact_n >= 3
    /\ max_iterations = MaxIter
    /\ iterations = max_iterations
    /\ rho_d = 1

(***************************************************************************)
(* C10: pollards_rho (low_end_lappy.py and classic.py) never returns a     *)
(* false factor: a loop that ends with d = n or d = 1 is reported as       *)
(* not-found, and a returned pair (d, n/d) for odd n has d dividing n      *)
(* with 1 < d < n.                                                         *)
(***************************************************************************)
IsRho == call.op \in {"pollards_rho", "classic_pollards_rho"}

RhoReturnsProperFactor ==
    (pc = "ready" /\ IsRho /\ fact_n % 2 = 1 /\ ret # NotFound)
        => /\ IsOk(ret)
           /\ 1 < Val(ret)[1]
           /\ Val(ret)[1] < fact_n
           /\ fact_n % Val(ret)[1] = 0
           /\ Val(ret)[2] * Val(ret)[1] = fact_n

RhoLoopEndReported ==
    (pc = "rho_loop" /\ pc' = "ready" /\ IsRho /\ rho_d \in {1, fact_n})
        => ret' = NotFound

NoFalseFactor == []RhoReturnsProperFactor /\ [][RhoLoopEndReported]_vars

RhoCycleWithoutFactor ==
    /\ pc = "rho_loop"
    /\ call.op = "pollards_rho"
    /\ rho_d = fact_n
    /\ iterations > 0

(***************************************************************************)
(* C11: pollards_rho on n = 391 with max_iterations = 1000 returns a pair  *)
(* whose product is 391, (17, 23) or (23, 17), for every seed drawn from   *)
(* [2, n-1].                                                               *)
(***************************************************************************)
RhoFactorsExample ==
    (pc = "ready" /\ fact_n = ExampleN /\ call = Call("pollards_rho", <<1000>>))
        => ret \in {Found(17, 23), Found(23, 17)}

(***************************************************************************)
(* C12: in the attack the strategies run in a fixed order: trial_division  *)
(* first, pollards_rho only after trial_division returned not-found, and   *)
(* no later strategy once an earlier one has produced a pair.              *)
(***************************************************************************)
StrategyOrders ==
    {<<>>, <<"trial_division">>, <<"trial_division", "pollards_rho">>,
     <<"trial_division", "pollards_rho", "simulated_quantum_factor">>}

LaterStrategyStarts ==
    Len(atk.tried) >= 1 /\ Len(atk'.tried) > Len(atk.tried)

StrategyOrder ==
    /\ [](atk.tried \in StrategyOrders)
    /\ [][LaterStrategyStarts
            => (atk.factors = None /\ pc = "ready" /\ ret = NotFound)]_vars

RhoAfterTrialFailed ==
    /\ atk.stage = "in_rho"
    /\ atk.tried = <<"trial_division", "pollards_rho">>
    /\ pc = "rho_loop"

(***************************************************************************)
(* Key recovery in main: the pair a strategy returns is always {p, q} of   *)
(* the generated key, so mod_inverse(e, phi_n) never raises there and the  *)
(* "Error in key reconstruction" branch is not reached.                    *)
(***************************************************************************)
KeyRecoveryNeverRaises ==
    /\ atk.outcome # "ERROR"
    /\ atk.factors # None
         => /\ {atk.factors[1], atk.factors[2]} = {atk.p[1], atk.q[1]}
            /\ IsOk(RecoverD(atk.e[1], atk.factors))

(***************************************************************************)
(* C14: for distinct primes p, q, the key of generate_keypair(p, q) and a  *)
(* message m in [0, n), an attack on (n, e, encrypt(m)) that reaches       *)
(* SUCCESS has recovered the plaintext integer m (p=61, q=53, m=65).       *)
(***************************************************************************)
PlaintextRecovered ==
    atk.outcome = "SUCCESS"
        => /\ atk.factors # None
           /\ atk.factors[1] * atk.factors[2] = atk.n[1]
           /\ atk.decrypted_int = atk.message_int

ExampleRecovered ==
    /\ atk.outcome = "SUCCESS"
    /\ atk.p = Some(61) /\ atk.q = Some(53)
    /\ atk.n = Some(3233)
    /\ atk.message_int = Some(65)
    /\ atk.decrypted_int = Some(65)

(***************************************************************************)
(* C15: every attack run ends in exactly one of SUCCESS and FAILED, going  *)
(* through FACTORING, KEY_RECOVERY, DECRYPTING in this order: FAILED when  *)
(* every strategy returned not-found, and SUCCESS once d is recovered.     *)
(***************************************************************************)
StageRank(st) ==
    CASE st = "attack" -> 1
      [] st \in {"after_trial", "in_rho", "after_rho", "in_quantum"} -> 2
      [] st = "decryption" -> 3
      [] st = "decrypting" -> 4
      [] st \in {"again", "exit"} -> 5
      [] OTHER -> 0

AttackEnded == atk.stage \in {"again", "exit"}

AttackInOrder ==
    (StageRank(atk.stage) \in 1 .. 4)
        => /\ StageRank(atk'.stage) >= StageRank(atk.stage)
           /\ StageRank(atk.stage) = 4 => atk'.outcome = "SUCCESS"
           /\ (StageRank(atk.stage) < 3 /\ StageRank(atk'.stage) > 2)
                => atk'.stage = "decryption"

AttackVerdict ==
    /\ AttackEnded => atk.outcome \in {"SUCCESS", "FAILED"}
    /\ ~AttackEnded => atk.outcome = ""
    /\ atk.outcome = "FAILED"
         <=> (AttackEnded /\ atk.factors = None /\ Len(atk.tried) = 3)
    /\ atk.outcome = "SUCCESS" => atk.d_recovered # None

NamedErrors ==
    {Raise("ValueError", "Both numbers must be prime"),
     Raise("ValueError", "p and q must be different"),
     Raise("ValueError", "Message too large"),
     Raise("ValueError", "Modular inverse does not exist")}

NoUnhandledFault ==
    call.op \in {"generate_keypair", "encrypt", "decrypt"}
        => (IsOk(ret) \/ ret \in NamedErrors)

(***************************************************************************)
(* C17: generate_keypair starts the search for e at 65537, or at 3 when    *)
(* 65537 >= phi, and returns the smallest prime e at or above that start   *)
(* with gcd(e, phi) = 1; the search ends for every pair of distinct primes.*)
(***************************************************************************)
CoprimeMath(a, b) == \A g \in 2 .. Min(a, b) : ~(a % g = 0 /\ b % g = 0)

GoodE(k, phi) == IsPrimeMath(k) /\ CoprimeMath(k, phi)

ESelection ==
    atk.stage = "message"
        => /\ HasKey
           /\ rsa.public_key = <<atk.p[1] * atk.q[1], atk.e[1]>>
           /\ LET phi   == (atk.p[1] - 1) * (atk.q[1] - 1)
                  start == IF 65537 >= phi THEN 3 ELSE 65537
                  e     == atk.e[1]
              IN  /\ e >= start
                  /\ GoodE(e, phi)
                  /\ \A k \in start .. (e - 1) : ~GoodE(k, phi)

ESearchedAboveStart ==
    /\ atk.stage = "message"
    /\ atk.p = Some(3) /\ atk.q = Some(917519)
    /\ rsa.public_key = <<2752557, 65539>>

(***************************************************************************)
(* C18: encrypt and decrypt leave public_key, private_key, n, p and q of   *)
(* the instance unchanged, whether they return or raise.                   *)
(***************************************************************************)
EncryptDecryptFrame ==
    [][call'.op \in {"encrypt", "decrypt"} => rsa' = rsa]_vars

EncryptRefusedKeyKept ==
    /\ call = Call("encrypt", <<78>>)
    /\ ret = Raise("ValueError", "Message too large")
    /\ rsa.public_key = <<77, 7>>
    /\ rsa.private_key = <<77, 43>>

(***************************************************************************)
(* C19: is_prime(n) is true exactly when n >= 2 and n has no divisor d     *)
(* with 1 < d < n; it is false for every n < 2.                            *)
(***************************************************************************)
IsPrimeExact ==
    call.op = "is_prime"
        => /\ IsOk(ret)
           /\ Val(ret) = IsPrimeMath(call.args[1])
           /\ call.args[1] < 2 => Val(ret) = FALSE

IsPrimeOfSquare ==
    /\ call = Call("is_prime", <<49>>)
    /\ ret = Ok(FALSE)

(***************************************************************************)
(* C20: get_next_prime(n) returns the smallest prime p >= n, n itself      *)
(* when n is prime.                                                        *)
(***************************************************************************)
NextPrimeLeast ==
    call.op = "get_next_prime"
        => /\ IsOk(ret)
           /\ Val(ret) >= call.args[1]
           /\ IsPrimeMath(Val(ret))
           /\ \A j \in call.args[1] .. (Val(ret) - 1) : ~IsPrimeMath(j)

NextPrimeAcrossGap ==
    /\ call = Call("get_next_prime", <<114>>)
    /\ ret = Ok(127)

(***************************************************************************)
(* C21: generate_keypair is deterministic: two runs on the same (p, q),    *)
(* from any prior state of the instance, return the same (n, e) and        *)
(* (n, d); is_prime(n) returns the same boolean on every call for a fixed  *)
(* n.                                                                      *)
(***************************************************************************)
SameCallAgain == call.op # "" /\ call' = call

\* the result of a run does not depend on what the instance held before
KeypairFromAnyState ==
    call'.op = "generate_keypair"
        => ret' = generate_keypair(NewRSA, call'.args[1], call'.args[2])[2]

Deterministic ==
    [][/\ (SameCallAgain /\ call.op \in {"generate_keypair", "is_prime"})
            => ret' = ret
       /\ KeypairFromAnyState]_vars

KeypairOfThreeAndFive ==
    /\ call = Call("generate_keypair", <<3, 5>>)
    /\ ret = Ok(<<<<15, 3>>, <<15, 3>>>>)
    /\ rsa.public_key = <<15, 3>>

(***************************************************************************)
(* C22: a generate_keypair call that fails (non-prime input or p = q)      *)
(* leaves p, q, n, public_key and private_key as they were, so after any   *)
(* sequence of calls public_key and private_key share the n = p*q of the   *)
(* last successful call.                                                   *)
(***************************************************************************)
FailedKeypairCall == call'.op = "generate_keypair" /\ ~IsOk(ret')

KeysOfLastSuccess ==
    IF rsa.public_key = None
    THEN rsa = NewRSA
    ELSE /\ rsa.private_key # None
         /\ rsa.public_key[1] = rsa.private_key[1]
         /\ rsa.n = Some(rsa.public_key[1])
         /\ rsa.p # None /\ rsa.q # None
         /\ rsa.p[1] * rsa.q[1] = rsa.public_key[1]

FailedKeypairFrame ==
    /\ [][FailedKeypairCall => rsa' = rsa]_vars
    /\ []KeysOfLastSuccess

KeypairRefusedKeyKept ==
    /\ call = Call("generate_keypair", <<5, 5>>)
    /\ ~IsOk(ret)
    /\ rsa.p = Some(7) /\ rsa.q = Some(11)
    /\ rsa.public_key = <<77, 7>>
    /\ rsa.private_key = <<77, 43>>

(***************************************************************************)
(* C23: for distinct primes p, q with min(p, q) < 10000, trial_division    *)
(* with its default limit returns (min(p, q), max(p, q)) for n = p*q, so   *)
(* the attack on such a key never invokes pollards_rho and always ends in  *)
(* SUCCESS.                                                                *)
(***************************************************************************)
SmallPrimeKey ==
    /\ atk.p # None /\ atk.q # None
    /\ Min(atk.p[1], atk.q[1]) < 10000

TrialDivisionFindsSmallPrime ==
    (SmallPrimeKey /\ StageRank(atk.stage) >= 2)
        => /\ atk.tried = <<"trial_division">>
           /\ atk.factors = <<Min(atk.p[1], atk.q[1]), Max(atk.p[1], atk.q[1])>>
           /\ AttackEnded => atk.outcome = "SUCCESS"

TrialDivisionSuffices ==
    /\ []TrialDivisionFindsSmallPrime
    /\ (SmallPrimeKey /\ atk.stage = "attack") ~> (atk.outcome = "SUCCESS")

SmallPrimeUnderCappedLimit ==
    /\ atk.p = Some(10037) /\ atk.q = Some(9973)
    /\ call = Call("trial_division", <<>>)
    /\ ret = Found(9973, 10037)
    /\ atk.tried = <<"trial_division">>
    /\ atk.outcome = "SUCCESS"

(***************************************************************************)
(* C24: the uncapped Pollard's rho loop (while d == 1, fixed start         *)
(* x = y = 2) terminates for every integer n >= 2, because the tortoise    *)
(* and the hare eventually coincide and make d = gcd(0, n) = n.            *)
(***************************************************************************)
InUncappedLoop == pc = "rho_loop" /\ call.op = "classic_pollards_rho"

UncappedRhoReturned == pc = "ready" /\ call.op = "classic_pollards_rho"

CoincidenceEndsLoop ==
    (InUncappedLoop /\ rho_x = rho_y /\ rho_d # 1) => (rho_d = fact_n /\ ~LoopCond)

UncappedRhoTerminates ==
    /\ InUncappedLoop ~> UncappedRhoReturned
    /\ []CoincidenceEndsLoop
    /\ [](UncappedRhoReturned => IsOk(ret))

HareMeetsTortoise ==
    /\ InUncappedLoop
    /\ fact_n = 29
    /\ rho_x = 21 /\ rho_y = 21
    /\ rho_d = 29

=============================================================================
